---- MODULE Spec2Model ----
(***************************************************************************)
(* A model of the query pipeline of src/main.py (class HubSpotChatbot):    *)
(* interpret_query -> build_api_request -> fetch_hubspot_data ->           *)
(* format_response, driven by process_query; and of the front end, main,   *)
(* which Streamlit runs from the top at every event of the session.        *)
(*                                                                         *)
(* Python values are records tagged with their type t, the payload in a    *)
(* field of its own per type: "str" (s, a TLA+ string), "int" (n), "num"   *)
(* (h, a float held in hundredths), "null" (None), "list" (q, a sequence   *)
(* of values), "map" (m, a JSON object whose iteration order matters: a    *)
(* sequence of <<key, value>>) and "dict" (d, a dict read by key).         *)
(* A dict read by key is a function whose DOMAIN is the set of keys        *)
(* present.  Text is plain ASCII: the emoji that open the      *)
(* program's output lines are left out of the string literals.            *)
(***************************************************************************)
EXTENDS Integers, Sequences, FiniteSets, TLC

VARIABLES
    pc,              \* position of process_query: start, interpreted, built, fetched, done, raised
    interpretation,  \* the dict returned by interpret_query
    request_config,  \* the dict returned by build_api_request
    data,            \* the dict returned by fetch_hubspot_data
    response_parts,  \* format_response's list of lines (list branch)
    response,        \* the text returned by process_query
    exc,             \* the exception that left process_query, or "none"
    llm,             \* what the language service did: "none", "error", "unparseable", "object"
    crm,             \* what the CRM call did: "none", "transport", "http", "ok"
    calls,           \* the external calls made so far, in order
    diagnostics,     \* the st.error(...) messages reported so far
    run,             \* position of the run of main in progress, or "idle"
    widgets,         \* what the widgets return in this run: the two key fields, the trigger
    session_state,   \* st.session_state: a dict, its DOMAIN the keys present
    keys_provided,   \* main's local of that name
    quick_shown      \* whether the page shows the quick-action and clear buttons

pipeline == <<pc, interpretation, request_config, data, response_parts, response,
              exc, llm, crm, calls, diagnostics>>

frontend == <<run, widgets, session_state, keys_provided, quick_shown>>

vars == <<pc, interpretation, request_config, data, response_parts, response,
          exc, llm, crm, calls, diagnostics,
          run, widgets, session_state, keys_provided, quick_shown>>

---------------------------------------------------------------------------
(* Python values *)

JStr(s) == [t |-> "str", s |-> s]
JInt(n) == [t |-> "int", n |-> n]
JNum(h) == [t |-> "num", h |-> h]
JNull == [t |-> "null"]
JList(q) == [t |-> "list", q |-> q]
JMap(pairs) == [t |-> "map", m |-> pairs]

\* dict.get(key, default) on a dict that is not None
Get(d, key, default) == IF key \in DOMAIN d THEN d[key] ELSE default

\* bool(x), as in `if filters:` and `x or 0`
Truthy(x) ==
    CASE x.t = "null" -> FALSE
      [] x.t = "str" -> x.s # ""
      [] x.t = "int" -> x.n # 0
      [] x.t = "num" -> x.h # 0
      [] x.t = "list" -> Len(x.q) > 0
      [] x.t = "map" -> Len(x.m) > 0

---------------------------------------------------------------------------
(* Strings *)

UpperAlpha == "ABCDEFGHIJKLMNOPQRSTUVWXYZ"
LowerAlpha == "abcdefghijklmnopqrstuvwxyz"
Digits == "0123456789"

CharAt(s, i) == SubSeq(s, i, i)

\* the position of each character of an alphabet
PositionsIn(alphabet) ==
    [c \in {CharAt(alphabet, i) : i \in 1..Len(alphabet)} |->
        CHOOSE i \in 1..Len(alphabet) : CharAt(alphabet, i) = c]

UpperIndex == PositionsIn(UpperAlpha)
LowerIndex == PositionsIn(LowerAlpha)
DigitIndex == PositionsIn(Digits)

LowerChar(c) == IF c \in DOMAIN UpperIndex THEN CharAt(LowerAlpha, UpperIndex[c]) ELSE c
UpperChar(c) == IF c \in DOMAIN LowerIndex THEN CharAt(UpperAlpha, LowerIndex[c]) ELSE c

RECURSIVE StrLower(_)
\* str.lower()
StrLower(s) == IF s = "" THEN "" ELSE LowerChar(CharAt(s, 1)) \o StrLower(SubSeq(s, 2, Len(s)))

\* `needle in hay` on two str
StrContains(hay, needle) ==
    \E i \in 1..(Len(hay) - Len(needle) + 1) : SubSeq(hay, i, i + Len(needle) - 1) = needle

StartsWith(s, prefix) == Len(s) >= Len(prefix) /\ SubSeq(s, 1, Len(prefix)) = prefix

RECURSIVE NatStr(_)
\* str(n) for n >= 0
NatStr(n) == IF n < 10 THEN CharAt(Digits, n + 1) ELSE NatStr(n \div 10) \o CharAt(Digits, (n % 10) + 1)

\* str(n), as an f-string renders an int
IntStr(n) == IF n < 0 THEN "-" \o NatStr(-n) ELSE NatStr(n)

RECURSIVE StrJoin(_, _)
\* sep.join(parts) on a sequence of str
StrJoin(sep, parts) ==
    IF Len(parts) = 0 THEN ""
    ELSE IF Len(parts) = 1 THEN parts[1]
    ELSE parts[1] \o sep \o StrJoin(sep, Tail(parts))

\* str(x), as an f-string renders a value
PyStr(x) ==
    CASE x.t = "str" -> x.s
      [] x.t = "int" -> IntStr(x.n)
      [] x.t = "null" -> "None"

RECURSIVE JsonEscape(_)
\* the body of a JSON string literal: json.dumps escapes the quote and the backslash
JsonEscape(s) ==
    IF s = "" THEN ""
    ELSE (IF CharAt(s, 1) = "\"" THEN "\\\""
          ELSE IF CharAt(s, 1) = "\\" THEN "\\\\"
          ELSE CharAt(s, 1)) \o JsonEscape(SubSeq(s, 2, Len(s)))

\* json.dumps of a scalar
JsonScalar(x) ==
    CASE x.t = "str" -> "\"" \o JsonEscape(x.s) \o "\""
      [] x.t = "int" -> IntStr(x.n)
      [] x.t = "null" -> "null"

\* json.dumps of one element of filter_groups (lines 175-181)
JsonGroup(g) ==
    "{\"filters\": [{\"propertyName\": " \o JsonScalar(JStr(g.propertyName))
        \o ", \"operator\": " \o JsonScalar(JStr(g.operator))
        \o ", \"value\": " \o JsonScalar(g.value) \o "}]}"

\* json.dumps(filter_groups): a list, with the default ", " separator
JsonDumps(groups) == "[" \o StrJoin(", ", [i \in 1..Len(groups) |-> JsonGroup(groups[i])]) \o "]"

---------------------------------------------------------------------------
(* HubSpotChatbot.__init__ *)

base_url == "https://api.hubapi.com"

\* the configured CRM credential (st.session_state.hubspot_key)
hubspot_api_key == "pat-na1-token"

available_endpoints ==
    [deals |->
        [endpoint |-> "/crm/v3/objects/deals",
         properties |-> <<"dealname", "amount", "dealstage", "closedate", "pipeline", "hubspot_owner_id">>],
     contacts |->
        [endpoint |-> "/crm/v3/objects/contacts",
         properties |-> <<"firstname", "lastname", "email", "phone", "company", "jobtitle">>],
     companies |->
        [endpoint |-> "/crm/v3/objects/companies",
         properties |-> <<"name", "domain", "industry", "city", "state", "country", "numberofemployees">>]]

\* the stage vocabulary, in declaration order: <<internal code, display label>>
deal_stages ==
    << <<"appointmentscheduled", "Appointment Scheduled">>,
       <<"qualifiedtobuy", "Qualified to Buy">>,
       <<"presentationscheduled", "Presentation Scheduled">>,
       <<"decisionmakerboughtin", "Decision Maker Bought-In">>,
       <<"contractsent", "Contract Sent">>,
       <<"closedwon", "Closed Won">>,
       <<"closedlost", "Closed Lost">> >>

---------------------------------------------------------------------------
(* build_api_request *)

\* line 171: the test that makes a vocabulary entry match a filter value
StageMatches(stage_name, value) ==
    \/ StrContains(StrLower(value), StrLower(stage_name))
    \/ StrContains(StrLower(stage_name), StrLower(value))

RECURSIVE FirstStage(_, _)
\* lines 170-173: the first entry from position i on that matches, else the value itself
FirstStage(value, i) ==
    IF i > Len(deal_stages) THEN value
    ELSE IF StageMatches(deal_stages[i][2], value) THEN deal_stages[i][1]
    ELSE FirstStage(value, i + 1)

RECURSIVE FirstStageExact(_, _)
FirstStageExact(value, i) ==
    IF i > Len(deal_stages) THEN value
    ELSE IF StrContains(value, deal_stages[i][2]) \/ StrContains(deal_stages[i][2], value)
    THEN deal_stages[i][1]
    ELSE FirstStageExact(value, i + 1)

\* ResolveStage matching without .lower(): letter case tells labels apart
ResolveStage_CaseSensitive(value) == FirstStageExact(value, 1)

\* lines 168-173
ResolveStage(value) == FirstStage(value, 1)

\* line 150
ObjectTypeOf(interp) == Get(interp, "object_type", JStr("deals"))

\* line 151: available_endpoints.get(object_type, available_endpoints["deals"])
EndpointInfo(object_type) ==
    IF object_type.t = "str" /\ object_type.s \in DOMAIN available_endpoints
    THEN available_endpoints[object_type.s]
    ELSE available_endpoints["deals"]

\* line 158: min(interpretation.get("limit", 10), 100); min() of a str or None with an int raises
LimitParam(interp) ==
    LET limit == Get(interp, "limit", JInt(10))
    IN  IF limit.t = "int"
        THEN [exc |-> "none", value |-> IF limit.n < 100 THEN limit.n ELSE 100]
        ELSE [exc |-> "TypeError", value |-> 0]

\* line 159: ",".join(interpretation.get("properties", endpoint_info["properties"][:3]))
PropertiesParam(interp, endpoint_info) ==
    LET dflt == JList([i \in 1..3 |-> JStr(endpoint_info.properties[i])])
        props == Get(interp, "properties", dflt)
    IN  IF props.t = "list" /\ \A i \in 1..Len(props.q) : props.q[i].t = "str"
        THEN [exc |-> "none", value |-> StrJoin(",", [i \in 1..Len(props.q) |-> props.q[i].s])]
        ELSE IF props.t = "str"
        THEN [exc |-> "none", value |-> StrJoin(",", [i \in 1..Len(props.s) |-> CharAt(props.s, i)])]
        ELSE [exc |-> "TypeError", value |-> ""]

\* FilterGroup resolving dealstage whatever the object type
FilterGroup_AnyObjectType(key, value, object_type) ==
    [propertyName |-> key,
     operator |-> "EQ",
     value |-> IF key = "dealstage" THEN JStr(ResolveStage(value.s)) ELSE value]

\* lines 166-181, one turn of the loop: the filter group of one (key, value) item
FilterGroup(key, value, object_type) ==
    [propertyName |-> key,
     operator |-> "EQ",
     value |-> IF key = "dealstage" /\ object_type = JStr("deals")
               THEN JStr(ResolveStage(value.s))
               ELSE value]

\* line 171 calls value.lower(): only a str has it
GroupRaises(key, value, object_type) ==
    key = "dealstage" /\ object_type = JStr("deals") /\ value.t # "str"

\* lines 162-184: the filterGroups parameter, when the request has one
FilterGroupsParam(interp, object_type) ==
    LET filters == Get(interp, "filters", JMap(<<>>))
    IN  IF ~Truthy(filters) THEN [exc |-> "none", present |-> FALSE, groups |-> <<>>]
        ELSE IF filters.t # "map" THEN [exc |-> "AttributeError", present |-> FALSE, groups |-> <<>>]
        ELSE IF \E i \in 1..Len(filters.m) : GroupRaises(filters.m[i][1], filters.m[i][2], object_type)
        THEN [exc |-> "AttributeError", present |-> FALSE, groups |-> <<>>]
        ELSE [exc |-> "none", present |-> TRUE,
              groups |-> [i \in 1..Len(filters.m) |->
                             FilterGroup(filters.m[i][1], filters.m[i][2], object_type)]]

\* lines 157-160 and 183-184: the params dict
RequestParams(limit, properties, fg) ==
    IF fg.present
    THEN [limit |-> limit, properties |-> properties, filterGroups |-> JsonDumps(fg.groups)]
    ELSE [limit |-> limit, properties |-> properties]

NoRequest == [url |-> "", params |-> <<>>, headers |-> <<>>]

\* lines 148-193: the request, or the exception that leaves the function
build_api_request(interp) ==
    LET object_type == ObjectTypeOf(interp)
        endpoint_info == EndpointInfo(object_type)
        limit == LimitParam(interp)
        properties == PropertiesParam(interp, endpoint_info)
        fg == FilterGroupsParam(interp, object_type)
    IN  IF limit.exc # "none" THEN [exc |-> limit.exc, value |-> NoRequest]
        ELSE IF properties.exc # "none" THEN [exc |-> properties.exc, value |-> NoRequest]
        ELSE IF fg.exc # "none" THEN [exc |-> fg.exc, value |-> NoRequest]
        ELSE [exc |-> "none",
              value |-> [url |-> base_url \o endpoint_info.endpoint,
                         params |-> RequestParams(limit.value, properties.value, fg),
                         headers |-> ("Authorization" :> "Bearer " \o hubspot_api_key)
                                     @@ ("Content-Type" :> "application/json")]]

---------------------------------------------------------------------------
(* format_response *)

JDict(f) == [t |-> "dict", d |-> f]

IsDigit(c) == c \in DOMAIN DigitIndex

AllDigits(s) == \A i \in 1..Len(s) : IsDigit(CharAt(s, i))

RECURSIVE DigitsValue(_)
DigitsValue(s) ==
    IF s = "" THEN 0
    ELSE 10 * DigitsValue(SubSeq(s, 1, Len(s) - 1)) + (DigitIndex[CharAt(s, Len(s))] - 1)

\* position of the decimal point in s, or 0
PointAt(s) ==
    IF \E i \in 1..Len(s) : CharAt(s, i) = "."
    THEN CHOOSE i \in 1..Len(s) : CharAt(s, i) = "."
    ELSE 0

\* an unsigned decimal literal float() accepts: digits, digits.digits, digits. or .digits
IsUnsignedDecimal(s) ==
    LET p == PointAt(s)
    IN  IF p = 0 THEN s # "" /\ AllDigits(s)
        ELSE /\ AllDigits(SubSeq(s, 1, p - 1))
             /\ AllDigits(SubSeq(s, p + 1, Len(s)))
             /\ Len(s) > 1

\* the value of an unsigned decimal literal, in hundredths (amounts carry at most two
\* fractional digits, so hundredths are exact)
UnsignedHundredths(s) ==
    LET p == PointAt(s)
        whole == IF p = 0 THEN s ELSE SubSeq(s, 1, p - 1)
        frac == IF p = 0 THEN "" ELSE SubSeq(s, p + 1, Len(s))
        frac2 == SubSeq(frac \o "00", 1, 2)
    IN  100 * DigitsValue(whole) + DigitsValue(frac2)

HasSign(s) == s # "" /\ CharAt(s, 1) \in {"-", "+"}

\* float(x): a number, in hundredths, or the exception float() raises
PyFloat(x) ==
    CASE x.t = "int" -> [exc |-> "none", value |-> 100 * x.n]
      [] x.t = "num" -> [exc |-> "none", value |-> x.h]
      [] x.t = "str" ->
            LET body == IF HasSign(x.s) THEN SubSeq(x.s, 2, Len(x.s)) ELSE x.s
            IN  IF IsUnsignedDecimal(body)
                THEN [exc |-> "none",
                      value |-> IF HasSign(x.s) /\ CharAt(x.s, 1) = "-"
                                THEN -UnsignedHundredths(body) ELSE UnsignedHundredths(body)]
                ELSE [exc |-> "ValueError", value |-> 0]
      [] OTHER -> [exc |-> "TypeError", value |-> 0]

RECURSIVE GroupThousands(_)
\* the "," format option on a non-negative integer part
GroupThousands(n) ==
    IF n < 1000 THEN NatStr(n)
    ELSE GroupThousands(n \div 1000) \o ","
         \o CharAt(Digits, ((n \div 100) % 10) + 1)
         \o CharAt(Digits, ((n \div 10) % 10) + 1)
         \o CharAt(Digits, (n % 10) + 1)

\* f"${x:,.2f}" of a float held in hundredths
FormatMoney(h) ==
    LET a == IF h < 0 THEN -h ELSE h
    IN  "$" \o (IF h < 0 THEN "-" ELSE "") \o GroupThousands(a \div 100) \o "."
        \o CharAt(Digits, ((a \div 10) % 10) + 1) \o CharAt(Digits, (a % 10) + 1)

RECURSIVE StrStrip(_)
\* str.strip() of blanks
StrStrip(s) ==
    IF s = "" THEN ""
    ELSE IF CharAt(s, 1) = " " THEN StrStrip(SubSeq(s, 2, Len(s)))
    ELSE IF CharAt(s, Len(s)) = " " THEN StrStrip(SubSeq(s, 1, Len(s) - 1))
    ELSE s

\* s[:n] of a str
StrPrefix(s, n) == SubSeq(s, 1, IF Len(s) < n THEN Len(s) ELSE n)

\* line 233: result.get("properties", {})
PropertiesOf(result) == Get(result, "properties", JDict(<<>>))

\* line 226: float(r.get("properties", {}).get("amount", 0) or 0)
AmountOf(result) ==
    LET properties == PropertiesOf(result)
    IN  IF properties.t # "dict" THEN [exc |-> "AttributeError", value |-> 0]
        ELSE LET amount == Get(properties.d, "amount", JInt(0))
             IN  PyFloat(IF Truthy(amount) THEN amount ELSE JInt(0))

RECURSIVE SumAmounts(_, _)
\* line 226: sum(... for r in results), from position i on; the first failing record raises
SumAmounts(results, i) ==
    IF i > Len(results) THEN [exc |-> "none", value |-> 0]
    ELSE LET a == AmountOf(results[i])
             rest == SumAmounts(results, i + 1)
         IN  IF a.exc # "none" THEN a
             ELSE IF rest.exc # "none" THEN rest
             ELSE [exc |-> "none", value |-> a.value + rest.value]

\* lines 241-243: the stage shown for a deal
StageLabel(stage) ==
    IF stage.t = "str" /\ \E k \in 1..Len(deal_stages) : deal_stages[k][1] = stage.s
    THEN (LET k == CHOOSE j \in 1..Len(deal_stages) : deal_stages[j][1] = stage.s
          IN  deal_stages[k][2])
    ELSE PyStr(stage)

\* lines 245-250
AmountStr(amount) ==
    LET f == PyFloat(amount)
    IN  IF f.exc = "none" THEN FormatMoney(f.value) ELSE "N/A"

\* lines 235-257: the lines of one deal
DealLines(i, properties) ==
    LET name == Get(properties, "dealname", JStr("Unnamed Deal"))
        amount == Get(properties, "amount", JStr("0"))
        stage == Get(properties, "dealstage", JStr("N/A"))
        closedate == Get(properties, "closedate", JStr("N/A"))
        head == << "**" \o IntStr(i) \o ".** [label] " \o PyStr(name),
                   "   - [dollar] Amount: " \o AmountStr(amount),
                   "   - [chart] Stage: " \o StageLabel(stage) >>
    IN  IF closedate = JStr("N/A") THEN [exc |-> "none", lines |-> head \o <<"">>]
        ELSE IF closedate.t # "str" THEN [exc |-> "TypeError", lines |-> <<>>]
        ELSE [exc |-> "none",
              lines |-> head \o << "   - [calendar] Close Date: " \o StrPrefix(closedate.s, 10), "" >>]

\* lines 259-270: the lines of one contact
ContactLines(i, properties) ==
    LET first == Get(properties, "firstname", JStr(""))
        last == Get(properties, "lastname", JStr(""))
        email == Get(properties, "email", JStr("N/A"))
        company == Get(properties, "company", JStr("N/A"))
        full == StrStrip(PyStr(first) \o " " \o PyStr(last))
        name == IF full = "" THEN "Unnamed Contact" ELSE full
    IN  [exc |-> "none",
         lines |-> << "**" \o IntStr(i) \o ".** [person] " \o name,
                      "   - [mail] Email: " \o PyStr(email) >>
                   \o (IF company # JStr("N/A")
                       THEN << "   - [office] Company: " \o PyStr(company) >> ELSE <<>>)
                   \o <<"">>]

\* lines 272-282: the lines of one company
CompanyLines(i, properties) ==
    LET name == Get(properties, "name", JStr("Unnamed Company"))
        industry == Get(properties, "industry", JStr("N/A"))
        domain == Get(properties, "domain", JStr("N/A"))
    IN  [exc |-> "none",
         lines |-> << "**" \o IntStr(i) \o ".** [office] " \o PyStr(name) >>
                   \o (IF industry # JStr("N/A")
                       THEN << "   - [factory] Industry: " \o PyStr(industry) >> ELSE <<>>)
                   \o (IF domain # JStr("N/A")
                       THEN << "   - [globe] Domain: " \o PyStr(domain) >> ELSE <<>>)
                   \o <<"">>]

\* lines 232-282, one turn of the loop
RecordLines(i, result, object_type) ==
    LET properties == PropertiesOf(result)
        supported == object_type \in {JStr("deals"), JStr("contacts"), JStr("companies")}
    IN  IF ~supported THEN [exc |-> "none", lines |-> <<>>]
        ELSE IF properties.t # "dict" THEN [exc |-> "AttributeError", lines |-> <<>>]
        ELSE IF object_type = JStr("deals") THEN DealLines(i, properties.d)
        ELSE IF object_type = JStr("contacts") THEN ContactLines(i, properties.d)
        ELSE CompanyLines(i, properties.d)

\* the loop's limit, line 232: results[:10]
ListCap == 10

RECURSIVE ListLines(_, _, _)
\* lines 232-282: the lines of results[i-1:10]; the first failing record raises
ListLines(results, i, object_type) ==
    IF i > Len(results) \/ i > ListCap THEN [exc |-> "none", lines |-> <<>>]
    ELSE LET one == RecordLines(i, results[i], object_type)
         IN  IF one.exc # "none" THEN one
             ELSE LET rest == ListLines(results, i + 1, object_type)
                  IN  IF rest.exc # "none" THEN rest
                      ELSE [exc |-> "none", lines |-> one.lines \o rest.lines]

\* lines 284-285
MoreNote(results) ==
    IF Len(results) > ListCap
    THEN << "\n_...and " \o IntStr(Len(results) - ListCap) \o " more results._" >>
    ELSE <<>>

\* line 230
ListHeader(results, object_type) ==
    "[clipboard] I found **" \o IntStr(Len(results)) \o " " \o PyStr(object_type) \o "**:\n"

\* lines 209-287: the text, the list of lines behind it (list branch), or the exception
format_response(d, interp) ==
    LET results == Get(d, "results", <<>>)
        object_type == Get(interp, "object_type", JStr("records"))
        summary_type == Get(interp, "summary_type", JStr("list"))
        total == SumAmounts(results, 1)
        body == ListLines(results, 1, object_type)
        parts == << ListHeader(results, object_type) >> \o body.lines \o MoreNote(results)
    IN  IF "error" \in DOMAIN d
        THEN [exc |-> "none", parts |-> <<>>,
              text |-> "[x] Sorry, I encountered an error: " \o d["error"]]
        ELSE IF Len(results) = 0
        THEN [exc |-> "none", parts |-> <<>>,
              text |-> "[search] I couldn't find any matching records."]
        ELSE IF summary_type = JStr("count")
        THEN [exc |-> "none", parts |-> <<>>,
              text |-> "[chart] Total " \o PyStr(object_type) \o ": **" \o IntStr(Len(results)) \o "**"]
        ELSE IF summary_type = JStr("total") /\ object_type = JStr("deals")
        THEN (IF total.exc # "none" THEN [exc |-> total.exc, parts |-> <<>>, text |-> ""]
              ELSE [exc |-> "none", parts |-> <<>>,
                    text |-> "[money] Total deal value: **" \o FormatMoney(total.value)
                             \o "** across " \o IntStr(Len(results)) \o " deals"])
        ELSE IF body.exc # "none" THEN [exc |-> body.exc, parts |-> <<>>, text |-> ""]
        ELSE [exc |-> "none", parts |-> parts, text |-> StrJoin("\n", parts)]

---------------------------------------------------------------------------
(* interpret_query and fetch_hubspot_data: the two external calls *)

\* lines 140-146: the Intent returned when the call or the parse fails
FallbackIntent ==
    [object_type |-> JStr("deals"),
     filters |-> JMap(<<>>),
     properties |-> JList(<< JStr("dealname"), JStr("amount") >>),
     limit |-> JInt(10),
     summary_type |-> JStr("list")]

\* interpret_query answering a failure with an empty Intent
interpret_query_EmptyOnFailure(reply) ==
    IF reply.kind = "object"
    THEN [value |-> reply.value, diag |-> <<>>]
    ELSE [value |-> <<>>, diag |-> << "Error interpreting query: " \o reply.detail >>]

\* lines 127-146.  A reply is what the language service did: kind "error" (the call
\* raised), "unparseable" (json.loads raised on the content) or "object" (json.loads
\* returned the dict `value`); detail is the exception's text.
interpret_query(reply) ==
    IF reply.kind = "object"
    THEN [value |-> reply.value, diag |-> <<>>]
    ELSE [value |-> FallbackIntent, diag |-> << "Error interpreting query: " \o reply.detail >>]

\* fetch_hubspot_data answering a failure with empty results and no error key
fetch_hubspot_data_NoErrorKey(outcome) ==
    IF outcome.kind = "ok"
    THEN [value |-> outcome.payload, diag |-> <<>>]
    ELSE [value |-> [results |-> <<>>],
          diag |-> << "Error fetching data from HubSpot: " \o outcome.detail >>]

\* lines 197-207.  An outcome is what the CRM call did: kind "transport" (requests.get
\* raised a RequestException), "http" (raise_for_status raised HTTPError on a non-2xx
\* status) or "ok" (response.json() returned the dict `payload`).
fetch_hubspot_data(outcome) ==
    IF outcome.kind = "ok"
    THEN [value |-> outcome.payload, diag |-> <<>>]
    ELSE [value |-> [results |-> <<>>, error |-> outcome.detail],
          diag |-> << "Error fetching data from HubSpot: " \o outcome.detail >>]

---------------------------------------------------------------------------
(* process_query, one step per line of its body *)

NoData == <<>>

\* no widget has fired and both key fields are empty
NoTrigger == [kind |-> "none", text |-> ""]

NoWidgets == [hubspot_key |-> "", openai_key |-> "", trigger |-> NoTrigger]

\* a new session: nothing stored, no run of main in progress
NoSession ==
    /\ run = "idle"
    /\ widgets = NoWidgets
    /\ session_state = <<>>
    /\ keys_provided = FALSE
    /\ quick_shown = FALSE

Init ==
    /\ pc = "start"
    /\ interpretation = <<>>
    /\ request_config = NoRequest
    /\ data = NoData
    /\ response_parts = <<>>
    /\ response = ""
    /\ exc = "none"
    /\ llm = "none"
    /\ crm = "none"
    /\ calls = <<>>
    /\ diagnostics = <<>>
    /\ NoSession

\* line 292, the language service answering with one of Replies
Interpret(Replies) ==
    /\ pc = "start"
    /\ \E reply \in Replies :
          LET r == interpret_query(reply)
          IN  /\ interpretation' = r.value
              /\ diagnostics' = diagnostics \o r.diag
              /\ llm' = reply.kind
    /\ calls' = Append(calls, "interpret")
    /\ pc' = "interpreted"
    /\ UNCHANGED <<request_config, data, response_parts, response, exc, crm>>
    /\ UNCHANGED frontend

\* line 295
Build ==
    /\ pc = "interpreted"
    /\ LET r == build_api_request(interpretation)
       IN  /\ request_config' = r.value
           /\ exc' = r.exc
           /\ pc' = IF r.exc = "none" THEN "built" ELSE "raised"
    /\ UNCHANGED <<interpretation, data, response_parts, response, llm, crm, calls, diagnostics>>
    /\ UNCHANGED frontend

\* line 298, the CRM answering with one of Outcomes
Fetch(Outcomes) ==
    /\ pc = "built"
    /\ \E outcome \in Outcomes :
          LET r == fetch_hubspot_data(outcome)
          IN  /\ data' = r.value
              /\ diagnostics' = diagnostics \o r.diag
              /\ crm' = outcome.kind
    /\ calls' = Append(calls, "fetch")
    /\ pc' = "fetched"
    /\ UNCHANGED <<interpretation, request_config, response_parts, response, exc, llm>>
    /\ UNCHANGED frontend

\* lines 301-303
Format ==
    /\ pc = "fetched"
    /\ LET r == format_response(data, interpretation)
       IN  /\ response' = r.text
           /\ response_parts' = r.parts
           /\ exc' = r.exc
           /\ pc' = IF r.exc = "none" THEN "done" ELSE "raised"
    /\ UNCHANGED <<interpretation, request_config, data, llm, crm, calls, diagnostics>>
    /\ UNCHANGED frontend

---------------------------------------------------------------------------
(* The environment: what the language service and the CRM may answer *)

\* how far the requested limits range around 0 and around the API limit
LimitSpread == 2

\* the longest result list the CRM returns
MaxResults == 12

\* marks a key the dict does not hold
Absent == [t |-> "absent"]

\* the dict holding the keys of `full` whose value is not Absent
MkDict(full) == [k \in {j \in DOMAIN full : full[j] # Absent} |-> full[k]]

MkIntent(ot, f, p, l, s) ==
    MkDict([object_type |-> ot, filters |-> f, properties |-> p, limit |-> l, summary_type |-> s])

RECURSIVE StrUpper(_)
StrUpper(s) == IF s = "" THEN "" ELSE UpperChar(CharAt(s, 1)) \o StrUpper(SubSeq(s, 2, Len(s)))

RECURSIVE StrSwapCase(_)
StrSwapCase(s) ==
    IF s = "" THEN ""
    ELSE (IF CharAt(s, 1) \in DOMAIN UpperIndex THEN LowerChar(CharAt(s, 1)) ELSE UpperChar(CharAt(s, 1)))
         \o StrSwapCase(SubSeq(s, 2, Len(s)))

RECURSIVE StrAltCase(_, _)
StrAltCase(s, up) ==
    IF s = "" THEN ""
    ELSE (IF up THEN UpperChar(CharAt(s, 1)) ELSE LowerChar(CharAt(s, 1)))
         \o StrAltCase(SubSeq(s, 2, Len(s)), ~up)

\* a display label as the interpreter may spell it
CaseVariants(s) == {s, StrLower(s), StrUpper(s), StrSwapCase(s), StrAltCase(s, TRUE)}

StageCodes == {deal_stages[k][1] : k \in 1..Len(deal_stages)}
StageLabels == {deal_stages[k][2] : k \in 1..Len(deal_stages)}

\* free text for a stage: every label in several spellings, every code, and texts
\* that match several labels or none
StageTexts ==
    UNION {CaseVariants(l) : l \in StageLabels}
        \cup StageCodes
        \cup {"negotiation", "closed", "Scheduled", "sent", ""}

StageFilter(text) == JMap(<< <<"dealstage", JStr(text)>> >>)

\* filters of a well-formed Intent: a mapping from property name to string
FilterMaps ==
    {Absent, JMap(<<>>)}
        \cup {StageFilter(v) : v \in StageTexts}
        \cup {JMap(<< <<"email", JStr("ann@acme.com")>> >>),
              JMap(<< <<"company", JStr("Acme \"East\" Corp")>>, <<"dealstage", JStr("Closed Won")>> >>),
              JMap(<< <<"dealstage", JStr("contract sent")>>, <<"pipeline", JStr("default")>>,
                      <<"amount", JStr("10000")>> >>)}

ObjectTypes == {Absent, JStr("deals"), JStr("contacts"), JStr("companies"), JStr("products")}

PropertyLists ==
    {Absent, JList(<<>>), JList(<< JStr("email") >>),
     JList(<< JStr("dealname"), JStr("amount"), JStr("closedate") >>)}

LimitValues == (-LimitSpread .. LimitSpread) \cup ((100 - LimitSpread) .. (100 + LimitSpread)) \cup {1000}

Limits == {Absent} \cup {JInt(n) : n \in LimitValues}

SummaryTypes == {Absent, JStr("list"), JStr("count"), JStr("total"), JStr("chart")}

\* the Query Intents of the data model, every field independently optional
QueryIntents ==
    {MkIntent(ot, f, p, l, s) :
        ot \in ObjectTypes, f \in FilterMaps, p \in PropertyLists, l \in Limits,
        s \in {Absent}}

ObjectReply(intent) == [kind |-> "object", value |-> intent]

\* the call raising, and a content json.loads rejects
FailedReplies ==
    {[kind |-> "error", detail |-> "Connection error."],
     [kind |-> "unparseable", detail |-> "Expecting value: line 1 column 1 (char 0)"]}

IntentReplies == FailedReplies \cup {ObjectReply(i) : i \in QueryIntents}

\* a record of the CRM payload whose properties are the dict `props`
Rec(props) == [properties |-> JDict(props)]

\* records as the CRM returns them: properties present, missing or null
RecordShapes ==
    << Rec([dealname |-> JStr("Acme renewal"), amount |-> JStr("100.50"),
            dealstage |-> JStr("closedwon"), closedate |-> JStr("2024-03-15T00:00:00Z")]),
       Rec([dealname |-> JStr("Beta pilot"), amount |-> JNull, dealstage |-> JStr("contractsent")]),
       Rec([amount |-> JStr("49.5"), dealstage |-> JStr("customstage")]),
       Rec([dealname |-> JStr("Gamma"), amount |-> JNum(123456780), closedate |-> JStr("2024-12")]),
       Rec([firstname |-> JStr("Ann"), lastname |-> JStr("Lee"), email |-> JStr("ann@acme.com"),
            company |-> JStr("Acme")]),
       Rec([email |-> JStr("bob@beta.io")]),
       Rec([firstname |-> JNull, lastname |-> JStr("Solo"), company |-> JNull]),
       Rec([name |-> JStr("Acme Corp"), industry |-> JStr("Technology"), domain |-> JStr("acme.com")]),
       Rec([name |-> JStr("Beta LLC"), amount |-> JStr("")]),
       <<>>,
       Rec([dealname |-> JStr("Delta"), amount |-> JStr("abc")]),
       Rec([dealname |-> JStr("Epsilon"), amount |-> JStr("20"), closedate |-> JNull]),
       [properties |-> JNull] >>

\* how many of RecordShapes, from the first, hold nothing the formatter can fail on
CleanShapes == Len(RecordShapes) - 3

\* n records taken in turn from the first `k` shapes, starting after the o-th
Cycle(k, n, o) == [i \in 1..n |-> RecordShapes[((i + o - 1) % k) + 1]]

\* n deals told apart by their position, their stages running through the vocabulary
NumberedDeals(n) ==
    [i \in 1..n |->
        Rec([dealname |-> JStr("Deal " \o IntStr(i)),
             amount |-> JStr(IntStr(i) \o ".25"),
             dealstage |-> JStr(deal_stages[((i - 1) % Len(deal_stages)) + 1][1])])]

ShortLists ==
    {<<>>} \cup {<< RecordShapes[a] >> : a \in 1..Len(RecordShapes)}
           \cup {<< RecordShapes[a], RecordShapes[b] >> : a, b \in 1..Len(RecordShapes)}

LongLists ==
    {Cycle(CleanShapes, n, o) : n \in 3..MaxResults, o \in 0..2}
        \cup {Cycle(Len(RecordShapes), n, 0) : n \in 3..MaxResults}
        \cup {NumberedDeals(n) : n \in 1..MaxResults}

OkOutcome(payload) == [kind |-> "ok", payload |-> payload]

\* requests.get raising (connection, timeout) and raise_for_status raising on a non-2xx
\* status; detail is str(e), which requests always fills
FailedOutcomes ==
    {[kind |-> "transport",
      detail |-> "HTTPSConnectionPool(host='api.hubapi.com', port=443): Max retries exceeded"],
     [kind |-> "transport",
      detail |-> "HTTPSConnectionPool(host='api.hubapi.com', port=443): Read timed out."],
     [kind |-> "http",
      detail |-> "401 Client Error: Unauthorized for url: https://api.hubapi.com/crm/v3/objects/deals"]}

\* a success payload: a JSON object with or without a results array
ResultOutcomes ==
    {OkOutcome(<<>>)} \cup {OkOutcome([results |-> q]) : q \in ShortLists \cup LongLists}

\* Intents that differ in what the formatter reads
SummaryIntents == {MkIntent(ot, Absent, Absent, Absent, s) : ot \in ObjectTypes, s \in SummaryTypes}

\* replies whose fields have any type: a limit that is a string or null, properties that
\* are null or hold a number, filters that are a list or null, a stage that is a number
LooseIntents ==
    {MkIntent(ot, f, p, l, s) :
        ot \in {Absent, JStr("deals"), JStr("contacts"), JNull},
        f \in {Absent, JMap(<<>>), JNull, JList(<< JStr("dealstage") >>),
               JMap(<< <<"email", JStr("ann@acme.com")>> >>),
               JMap(<< <<"dealstage", JInt(3)>> >>),
               JMap(<< <<"dealstage", JStr("Closed Won")>> >>)},
        p \in {Absent, JNull, JList(<<>>), JList(<< JInt(1) >>),
               JList(<< JStr("dealname"), JStr("amount") >>)},
        l \in {Absent, JNull, JStr("5"), JInt(0), JInt(5), JInt(1000)},
        s \in {Absent, JStr("list"), JStr("count"), JStr("total")}}

\* a stage named in free text, to be listed
StageIntents ==
    {MkIntent(ot, StageFilter(v), Absent, Absent, JStr("list")) :
        ot \in {Absent, JStr("deals")}, v \in StageTexts}

LLMReplies == FailedReplies \cup {ObjectReply(i) : i \in LooseIntents \cup StageIntents}

CRMOutcomes ==
    FailedOutcomes
        \cup {OkOutcome(<<>>)}
        \cup {OkOutcome([results |-> q]) :
                q \in {<<>>, Cycle(1, 1, 0), Cycle(3, 3, 0), Cycle(Len(RecordShapes), 2, 10),
                       Cycle(Len(RecordShapes), 1, 12), Cycle(CleanShapes, MaxResults, 0),
                       NumberedDeals(Len(deal_stages)), NumberedDeals(MaxResults)}}

---------------------------------------------------------------------------
(* main: the front end.  Streamlit runs main from the top at every event   *)
(* of the session (a key typed, a prompt submitted, a button clicked) and  *)
(* when the script calls st.rerun().  An event that arrives while a run is *)
(* in progress ends that run at its next st.* call, where the script       *)
(* runner raises a control exception that does not derive from Exception,  *)
(* and the run of the new event starts.                                    *)

\* the longest history at which the user still asks
MaxHistory == 4

\* lines 348-356
example_queries ==
    << "What deals are in negotiation?",
       "Show me all deals worth more than $10,000",
       "List contacts from Acme Corporation",
       "How many contacts do we have?",
       "Total value of deals in contract sent stage?",
       "What companies are in the technology industry?",
       "Show me deals closing this month" >>

\* lines 437-447: the query each quick-action button queues
quick_actions ==
    << "How many deals do we have in total?",
       "What's the total value of all deals?",
       "How many contacts are in the system?",
       "How many companies do we have?" >>

\* st.session_state[key] = value
Put(state, key, value) == [k \in DOMAIN state \cup {key} |-> IF k = key THEN value ELSE state[k]]

\* del st.session_state[key]
Del(state, key) == [k \in DOMAIN state \ {key} |-> state[k]]

\* st.session_state.messages, once line 368 has run
Messages == Get(session_state, "messages", <<>>)

\* st.session_state.messages.append({"role": role, "content": content})
AppendMessage(state, role, content) ==
    Put(state, "messages", Append(Get(state, "messages", <<>>), [role |-> role, content |-> content]))

\* lines 403 and 426; e stands for str(e)
ErrorMsg(e) == "[x] An error occurred: " \o e

\* lines 390-396 and 418-422: a new HubSpotChatbot enters process_query
EnterPipeline ==
    /\ pc' = "start"
    /\ interpretation' = <<>>
    /\ request_config' = NoRequest
    /\ data' = NoData
    /\ response_parts' = <<>>
    /\ response' = ""
    /\ exc' = "none"
    /\ llm' = "none"
    /\ crm' = "none"
    /\ calls' = <<>>
    /\ diagnostics' = <<>>

\* process_query is left: by its return, by its exception or with the run
LeavePipeline ==
    /\ pc' = "idle"
    /\ interpretation' = <<>>
    /\ request_config' = NoRequest
    /\ data' = NoData
    /\ response_parts' = <<>>
    /\ response' = ""
    /\ exc' = "none"
    /\ llm' = "none"
    /\ crm' = "none"
    /\ calls' = <<>>
    /\ diagnostics' = <<>>

\* st.error inside process_query has just been called (lines 139 and 206)
AtPipelineError ==
    \/ pc = "interpreted" /\ llm \in {"error", "unparseable"}
    \/ pc = "fetched" /\ crm \in {"transport", "http"}

\* no run is in progress, or the run is at an st.* call:
\*   sidebar    lines 308-309, before anything is read
\*   chat       lines 363-376, st.columns to st.chat_input
\*   chat_user  lines 382-387, between the user message and the call
\*   chat_call  lines 139, 206 (st.error in process_query), 397 (st.markdown(response),
\*              before the append of line 400), 404 (st.error, before that of line 405)
\*   button_call  lines 139, 206 only: lines 414-423 call no st.* of their own
\*   queued     the containers of lines 386-387 closing
\*   stats      line 431
AtYield ==
    \/ run \in {"idle", "sidebar", "chat", "chat_user", "queued", "stats"}
    \/ run \in {"chat_call", "button_call"} /\ AtPipelineError
    \/ run = "chat_call" /\ pc \in {"done", "raised"}

\* the run in progress, if any, ends and main starts from the top with this event
StartRun(hubspot_key, openai_key, trigger) ==
    /\ AtYield
    /\ widgets' = [hubspot_key |-> hubspot_key, openai_key |-> openai_key, trigger |-> trigger]
    /\ run' = "sidebar"
    /\ keys_provided' = FALSE
    /\ LeavePipeline
    /\ UNCHANGED <<session_state, quick_shown>>

\* the user still asks
HistoryRoom == Len(Messages) < MaxHistory

\* what the user may type into a key field
KeyTexts == [hubspot_key |-> {"", hubspot_api_key}, openai_key |-> {"", "sk-proj-key"}]

\* lines 316-328: the user edits one of the two key fields
TypeCredential ==
    \E field \in DOMAIN KeyTexts : \E text \in KeyTexts[field] :
        /\ text # widgets[field]
        /\ StartRun(IF field = "hubspot_key" THEN text ELSE widgets.hubspot_key,
                    IF field = "openai_key" THEN text ELSE widgets.openai_key,
                    NoTrigger)

\* the prompts the user types
Prompts == {"Which deals closed last week?"}

\* line 376: the user submits a prompt
SubmitPrompt ==
    /\ HistoryRoom
    /\ \E prompt \in Prompts :
          StartRun(widgets.hubspot_key, widgets.openai_key, [kind |-> "chat", text |-> prompt])

\* the example buttons the user clicks
ClickedExamples == {4}

\* line 359: the user clicks an example button
ClickExample ==
    /\ HistoryRoom
    /\ \E i \in ClickedExamples :
          StartRun(widgets.hubspot_key, widgets.openai_key,
                   [kind |-> "example", text |-> example_queries[i]])

\* the quick-action buttons the user clicks
ClickedQuick == {2}

\* lines 437-447: the user clicks a quick-action button of the page
ClickQuick ==
    /\ quick_shown
    /\ HistoryRoom
    /\ \E j \in ClickedQuick :
          StartRun(widgets.hubspot_key, widgets.openai_key,
                   [kind |-> "quick", text |-> quick_actions[j]])

\* line 452: the user clicks the clear button of the page
ClickClear ==
    /\ quick_shown
    /\ StartRun(widgets.hubspot_key, widgets.openai_key, [kind |-> "clear", text |-> ""])

\* lines 316-368: the keys are saved, keys_provided computed, a clicked example
\* queued, the history created
Sidebar ==
    /\ run = "sidebar"
    /\ LET hubspot_saved == IF widgets.hubspot_key # ""
                            THEN Put(session_state, "hubspot_key", widgets.hubspot_key)
                            ELSE session_state
           openai_saved == IF widgets.openai_key # ""
                           THEN Put(hubspot_saved, "openai_key", widgets.openai_key)
                           ELSE hubspot_saved
           queued == IF widgets.trigger.kind = "example"
                     THEN Put(openai_saved, "current_query", widgets.trigger.text)
                     ELSE openai_saved
       IN  session_state' = IF "messages" \in DOMAIN queued THEN queued
                            ELSE Put(queued, "messages", <<>>)
    /\ keys_provided' = (widgets.hubspot_key # "" /\ widgets.openai_key # "")
    /\ run' = "chat"
    /\ UNCHANGED <<widgets, quick_shown>>
    /\ UNCHANGED pipeline

\* lines 376-381
ChatInput ==
    /\ run = "chat"
    /\ IF widgets.trigger.kind = "chat" /\ keys_provided
       THEN /\ session_state' = AppendMessage(session_state, "user", widgets.trigger.text)
            /\ run' = "chat_user"
       ELSE /\ run' = "queued"
            /\ UNCHANGED session_state
    /\ UNCHANGED <<widgets, keys_provided, quick_shown>>
    /\ UNCHANGED pipeline

\* lines 382-396
ChatCall ==
    /\ run = "chat_user"
    /\ run' = "chat_call"
    /\ EnterPipeline
    /\ UNCHANGED <<widgets, session_state, keys_provided, quick_shown>>

\* lines 397-405: the response, or the text of the exception, joins the history
ChatAnswer ==
    /\ run = "chat_call"
    /\ pc \in {"done", "raised"}
    /\ session_state' = AppendMessage(session_state, "assistant",
                                      IF pc = "done" THEN response ELSE ErrorMsg(exc))
    /\ run' = "queued"
    /\ LeavePipeline
    /\ UNCHANGED <<widgets, keys_provided, quick_shown>>

\* lines 408-422
CurrentQuery ==
    /\ run = "queued"
    /\ IF "current_query" \in DOMAIN session_state
       THEN LET query == session_state["current_query"]
                 taken == Del(session_state, "current_query")
            IN  IF keys_provided
                THEN /\ session_state' = AppendMessage(taken, "user", query)
                     /\ run' = "button_call"
                     /\ EnterPipeline
                ELSE /\ session_state' = taken
                     /\ run' = "stats"
                     /\ UNCHANGED pipeline
       ELSE /\ run' = "stats"
            /\ UNCHANGED session_state
            /\ UNCHANGED pipeline
    /\ UNCHANGED <<widgets, keys_provided, quick_shown>>

\* lines 423-428: the response, or the text of the exception, joins the history and
\* st.rerun() starts main from the top
ButtonAnswer ==
    /\ run = "button_call"
    /\ pc \in {"done", "raised"}
    /\ session_state' = AppendMessage(session_state, "assistant",
                                      IF pc = "done" THEN response ELSE ErrorMsg(exc))
    /\ widgets' = [widgets EXCEPT !.trigger = NoTrigger]
    /\ run' = "sidebar"
    /\ keys_provided' = FALSE
    /\ LeavePipeline
    /\ UNCHANGED quick_shown

\* lines 430-465: the quick actions, the clear button and the end of the script
QuickStats ==
    /\ run = "stats"
    /\ quick_shown' = keys_provided
    /\ widgets' = [widgets EXCEPT !.trigger = NoTrigger]
    /\ IF keys_provided /\ widgets.trigger.kind = "quick"
       THEN /\ session_state' = Put(session_state, "current_query", widgets.trigger.text)
            /\ run' = "idle"
       ELSE IF keys_provided /\ widgets.trigger.kind = "clear"
       THEN /\ session_state' = Put(session_state, "messages", <<>>)
            /\ run' = "sidebar"
       ELSE /\ run' = "idle"
            /\ UNCHANGED session_state
    /\ keys_provided' = FALSE
    /\ UNCHANGED pipeline

\* what the services answer the front end's calls: a failure, an Intent without
\* fields, an Intent the request cannot be built from; a failure, one deal, a deal
\* without close date
ChatReplies ==
    {[kind |-> "error", detail |-> "Connection error."],
     ObjectReply(MkIntent(Absent, Absent, Absent, Absent, Absent)),
     ObjectReply(MkIntent(Absent, Absent, JNull, Absent, Absent))}

ChatOutcomes ==
    {[kind |-> "http",
      detail |-> "401 Client Error: Unauthorized for url: https://api.hubapi.com/crm/v3/objects/deals"],
     OkOutcome([results |-> << RecordShapes[1] >>]),
     OkOutcome([results |-> << RecordShapes[12] >>])}

---------------------------------------------------------------------------
(* Specifications *)

InterpretQuery == Interpret(LLMReplies)
FetchData == Fetch(CRMOutcomes)

\* process_query against any reply and any CRM answer
Next == InterpretQuery \/ Build \/ FetchData \/ Format

Spec == Init /\ [][Next]_vars

InterpretIntent == Interpret(IntentReplies)

\* interpret_query and build_api_request over the Query Intents
NextBuild == InterpretIntent \/ Build

SpecBuild == Init /\ [][NextBuild]_vars

InterpretSummary == Interpret({ObjectReply(i) : i \in SummaryIntents})
FetchResults == Fetch(FailedOutcomes \cup ResultOutcomes)

\* process_query over the CRM's result sets
NextFormat == InterpretSummary \/ Build \/ FetchResults \/ Format

SpecFormat == Init /\ [][NextFormat]_vars

\* a new session, process_query not entered
InitChat ==
    /\ pc = "idle"
    /\ interpretation = <<>>
    /\ request_config = NoRequest
    /\ data = NoData
    /\ response_parts = <<>>
    /\ response = ""
    /\ exc = "none"
    /\ llm = "none"
    /\ crm = "none"
    /\ calls = <<>>
    /\ diagnostics = <<>>
    /\ NoSession

InterpretChat == Interpret(ChatReplies)
FetchChat == Fetch(ChatOutcomes)

\* main over the events of a session, process_query stepping inside its runs
NextChat ==
    \/ TypeCredential \/ SubmitPrompt \/ ClickExample \/ ClickQuick \/ ClickClear
    \/ Sidebar \/ ChatInput \/ ChatCall \/ ChatAnswer \/ CurrentQuery \/ ButtonAnswer \/ QuickStats
    \/ InterpretChat \/ Build \/ FetchChat \/ Format

SpecChat == InitChat /\ [][NextChat]_vars

---------------------------------------------------------------------------
(* Claims *)

Returned == pc \in {"done", "raised"}

\* C1: for every reply of the language service and every answer of the CRM,
\* process_query returns a text: no exception leaves interpret_query,
\* build_api_request, fetch_hubspot_data or format_response.
C1_NeverRaises == pc # "raised" /\ exc = "none"

\* C2: every run of process_query makes exactly one interpretation call and exactly one
\* fetch call, the fetch after the interpretation, and repeats neither, also when the
\* fallback Intent is used.
C2_OneCallEach ==
    /\ calls \in {<<>>, <<"interpret">>, <<"interpret", "fetch">>}
    /\ Returned => calls = <<"interpret", "fetch">>

\* the limit the Intent asks for
RequestedLimit == Get(interpretation, "limit", Absent)

\* C3: whatever limit the Intent asks for, the built request's limit lies in 1..100;
\* it is 100 when more than 100 is asked for and 10 when no limit is given.
C3_LimitClamped ==
    pc = "built" =>
        /\ request_config.params["limit"] \in 1..100
        /\ RequestedLimit = Absent => request_config.params["limit"] = 10
        /\ (RequestedLimit # Absent /\ RequestedLimit.n > 100) => request_config.params["limit"] = 100

\* C4: when the CRM call fails at transport level (a network error or a non-2xx status),
\* fetch_hubspot_data does not raise and returns empty results with a non-empty error
\* string, and format_response returns the single error line, whatever the Intent.
C4_TransportFailure ==
    crm \in {"transport", "http"} =>
        /\ pc \in {"fetched", "done"}
        /\ DOMAIN data = {"results", "error"}
        /\ data["results"] = <<>>
        /\ data["error"] # ""
        /\ pc = "done" =>
              /\ response = "[x] Sorry, I encountered an error: " \o data["error"]
              /\ ~StrContains(response, "\n")
              /\ response_parts = <<>>

C4_Witness == crm = "http" /\ pc = "done" /\ Get(interpretation, "summary_type", Absent) = JStr("count")

\* the request build_api_request makes of the fallback Intent
FallbackParams == [limit |-> 10, properties |-> "dealname,amount"]

\* C5: when the language service call fails or its reply cannot be parsed,
\* interpret_query does not raise and returns exactly the fallback Intent
\* {deals, {}, [dealname, amount], 10, list}, and the pipeline goes on to build the
\* request of that Intent and to fetch with it.
C5_FallbackIntent ==
    llm \in {"error", "unparseable"} =>
        /\ interpretation = [object_type |-> JStr("deals"), filters |-> JMap(<<>>),
                             properties |-> JList(<< JStr("dealname"), JStr("amount") >>),
                             limit |-> JInt(10), summary_type |-> JStr("list")]
        /\ Len(diagnostics) >= 1
        /\ pc \in {"built", "fetched", "done", "raised"} =>
              /\ request_config.url = "https://api.hubapi.com/crm/v3/objects/deals"
              /\ request_config.params = FallbackParams
        /\ Returned => calls = <<"interpret", "fetch">>

C5_Witness == llm = "unparseable" /\ pc = "done" /\ crm = "ok" /\ response_parts # <<>>

\* the filters that name stage k by its label, in each spelling
LabelFilters == [k \in 1..Len(deal_stages) |-> {StageFilter(v) : v \in CaseVariants(deal_stages[k][2])}]

\* the encoded filter groups of one equality filter on dealstage
StageGroups(code) ==
    "[{\"filters\": [{\"propertyName\": \"dealstage\", \"operator\": \"EQ\", \"value\": \""
        \o code \o "\"}]}]"

\* the index in response_parts of the heading of the i-th listed record
HeadingAt(i) ==
    CHOOSE j \in 1..Len(response_parts) : StartsWith(response_parts[j], "**" \o IntStr(i) \o ".** ")

\* the records the list shows
Shown == 1..(IF Len(data["results"]) < 10 THEN Len(data["results"]) ELSE 10)

\* C6: for every (code, label) of the stage vocabulary, a deals request whose filter is
\* dealstage = label, in any letter case, carries a filter whose value is that code, and
\* a listed deal whose dealstage is that code shows that label.
C6_StageRoundTrip ==
    \A k \in 1..Len(deal_stages) :
        /\ ( /\ pc \in {"built", "fetched", "done"}
             /\ Get(interpretation, "filters", Absent) \in LabelFilters[k]
             /\ Get(interpretation, "object_type", JStr("deals")) = JStr("deals") )
           => ( /\ "filterGroups" \in DOMAIN request_config.params
                /\ request_config.params["filterGroups"] = StageGroups(deal_stages[k][1]) )
        /\ ( /\ pc = "done"
             /\ response_parts # <<>>
             /\ Get(interpretation, "object_type", Absent) = JStr("deals") )
           => \A i \in Shown :
                 Get(PropertiesOf(data["results"][i]).d, "dealstage", Absent) = JStr(deal_stages[k][1])
                 => response_parts[HeadingAt(i) + 2] = "   - [chart] Stage: " \o deal_stages[k][2]

C6_Witness ==
    /\ pc = "done"
    /\ interpretation = MkIntent(JStr("deals"), StageFilter("cLOSED lOST"), Absent, Absent, JStr("list"))
    /\ request_config.params["filterGroups"] = StageGroups("closedlost")
    /\ Len(Get(data, "results", <<>>)) = Len(deal_stages)
    /\ response_parts[HeadingAt(7) + 2] = "   - [chart] Stage: Closed Lost"

\* the results the formatter was given, and what the Intent asks of it
Results == Get(data, "results", <<>>)
AskedType == Get(interpretation, "object_type", Absent)
AskedSummary == Get(interpretation, "summary_type", Absent)

\* every record's properties are a mapping (present or left out)
MappingRecords == \A i \in 1..Len(Results) : PropertiesOf(Results[i]).t = "dict"

\* the amount of a record in hundredths, a missing, null or non-numeric one counting 0
LenientAmount(result) ==
    LET amount == Get(PropertiesOf(result).d, "amount", JNull)
    IN  IF amount.t \in {"str", "int", "num"} /\ PyFloat(amount).exc = "none"
        THEN PyFloat(amount).value ELSE 0

RECURSIVE LenientSum(_, _)
LenientSum(results, i) ==
    IF i > Len(results) THEN 0 ELSE LenientAmount(results[i]) + LenientSum(results, i + 1)

\* C7: for summary_type "total" on deals and a non-empty result list, format_response
\* reports the sum of the amounts, a record whose amount is missing, null or not a
\* number counting 0, and the number of results; it fails on no such record.
C7_TotalOfAmounts ==
    ( /\ Returned
      /\ crm = "ok"
      /\ AskedSummary = JStr("total") /\ AskedType = JStr("deals")
      /\ Len(Results) > 0 /\ MappingRecords )
    => /\ pc = "done"
       /\ response = "[money] Total deal value: **" \o FormatMoney(LenientSum(Results, 1))
                     \o "** across " \o IntStr(Len(Results)) \o " deals"

\* the headings of the listed records, in the order of the text
Headings == SelectSeq(response_parts, LAMBDA s : StartsWith(s, "**"))

\* the trailing notes of the text
Notes == SelectSeq(response_parts, LAMBDA s : StartsWith(s, "\n_...and "))

\* the name a deal is listed under
ListedDealName(result) == PyStr(Get(PropertiesOf(result).d, "dealname", JStr("Unnamed Deal")))

\* C8: in list mode (summary_type "list", absent or unrecognized) with N >= 1 results of a
\* supported object type, format_response lists exactly min(N, 10) records, numbered
\* 1..min(N, 10) in result order, reports N in the header, and ends with the note of
\* N - 10 omitted results if and only if N > 10.
C8_ListCap ==
    ( /\ Returned
      /\ crm = "ok"
      /\ AskedSummary \in {Absent, JStr("list"), JStr("chart")}
      /\ AskedType \in {JStr("deals"), JStr("contacts"), JStr("companies")}
      /\ Len(Results) > 0 /\ MappingRecords )
    => LET n == Len(Results)
           shown == IF n < 10 THEN n ELSE 10
       IN  /\ pc = "done"
           /\ response_parts[1] = "[clipboard] I found **" \o IntStr(n) \o " " \o AskedType.s \o "**:\n"
           /\ Len(Headings) = shown
           /\ \A i \in 1..shown : StartsWith(Headings[i], "**" \o IntStr(i) \o ".** ")
           /\ AskedType = JStr("deals") =>
                 \A i \in 1..shown : Headings[i] = "**" \o IntStr(i) \o ".** [label] " \o ListedDealName(Results[i])
           /\ n > 10 => /\ Notes = << "\n_...and " \o IntStr(n - 10) \o " more results._" >>
                        /\ response_parts[Len(response_parts)] = Notes[1]
           /\ n <= 10 => Notes = <<>>

\* the filters of the Intent, an Intent without filters having none
AskedFilters == Get(interpretation, "filters", JMap(<<>>)).m

\* the code the stage vocabulary gives a free text: that of the first entry, in
\* declaration order, whose label contains the text or is contained in it, letter case
\* aside; the text itself when no entry matches
VocabularyCode(text) ==
    LET hits == {k \in 1..Len(deal_stages) : StageMatches(deal_stages[k][2], text)}
    IN  IF hits = {} THEN text
        ELSE deal_stages[CHOOSE k \in hits : \A j \in hits : k <= j][1]

\* the one-filter group the claim expects of the i-th filter
ExpectedGroup(i) ==
    LET key == AskedFilters[i][1]
        value == AskedFilters[i][2]
    IN  "{\"filters\": [{\"propertyName\": \"" \o key \o "\", \"operator\": \"EQ\", \"value\": "
        \o JsonScalar(IF key = "dealstage" /\ AskedType \in {Absent, JStr("deals")}
                      THEN JStr(VocabularyCode(value.s)) ELSE value)
        \o "}]}"

\* C9: the built request has the filterGroups parameter exactly when the Intent's
\* filters are non-empty, and it then holds one group per filter key, in order, each
\* of one EQ filter on that key whose value is the Intent's, except that dealstage on
\* deals is resolved through the stage vocabulary.
C9_FilterGroups ==
    pc = "built" =>
        /\ "filterGroups" \in DOMAIN request_config.params <=> Len(AskedFilters) > 0
        /\ Len(AskedFilters) > 0 =>
              request_config.params["filterGroups"]
                  = "[" \o StrJoin(", ", [i \in 1..Len(AskedFilters) |-> ExpectedGroup(i)]) \o "]"

C9_Witness ==
    /\ pc = "built"
    /\ Len(AskedFilters) = 3
    /\ AskedType = JStr("deals")
    /\ StrContains(request_config.params["filterGroups"], "\"value\": \"contractsent\"}]}, {")

\* the catalog entry the Intent's object type resolves to
ResolvedDefaults ==
    IF AskedType # Absent /\ AskedType.s \in {"deals", "contacts", "companies"}
    THEN available_endpoints[AskedType.s].properties
    ELSE available_endpoints["deals"].properties

\* the properties the Intent asks for, an Intent without properties asking for none
AskedProperties == Get(interpretation, "properties", JList(<<>>)).q

\* C10: the properties parameter is the comma-join of the Intent's properties when
\* there are any, and otherwise (none given, or an empty sequence) that of the first
\* three default properties of the resolved catalog entry; it is never empty.
C10_PropertiesParam ==
    pc = "built" =>
        /\ request_config.params["properties"] # ""
        /\ request_config.params["properties"]
              = IF Len(AskedProperties) > 0
                THEN StrJoin(",", [i \in 1..Len(AskedProperties) |-> AskedProperties[i].s])
                ELSE StrJoin(",", SubSeq(ResolvedDefaults, 1, 3))

\* the history takes turns: a user message at every odd place, an assistant message
\* at every even one
Alternates ==
    \A i \in 1..Len(Messages) : Messages[i].role = IF i % 2 = 1 THEN "user" ELSE "assistant"

\* while a queued query is processed it is no longer in the session
TakenBeforeProcessed == run = "button_call" => "current_query" \notin DOMAIN session_state

\* a message is in the history, or a query in process, only with both keys given
KeysGiven ==
    /\ Len(Messages) > 0 =>
          /\ Get(session_state, "hubspot_key", "") # ""
          /\ Get(session_state, "openai_key", "") # ""
    /\ run \in {"chat_user", "chat_call", "button_call"} =>
          widgets.hubspot_key # "" /\ widgets.openai_key # ""

\* C11: over any sequence of front-end events the chat history alternates user and
\* assistant messages, starting with a user message, each user message being followed
\* by exactly one assistant message before any further user message; a queued button
\* query is removed from the session before it is processed; and no message is
\* appended while either credential is missing.
C11_HistoryAlternates == Alternates /\ TakenBeforeProcessed /\ KeysGiven

====
